---------------------------- MODULE Spec2Model ----------------------------
(***************************************************************************)
(* curl-mcp-server (index.js, v1.2.0): the two tool handlers               *)
(* handleCurlRequest and handleCurlDownload as a state machine.            *)
(*                                                                         *)
(* A command line is a sequence of symbols.  A symbol is one character of  *)
(* Sigma, or an atom standing for a fixed run of ordinary word characters  *)
(* ("curl", "--data", "http://h/", "GET", ...).  A response body is a      *)
(* sequence of weighted tokens (see the response section).                 *)
(***************************************************************************)
EXTENDS Integers, Sequences, FiniteSets, TLC

(***************************************************************************)
(* Bounds of the model.                                                    *)
(***************************************************************************)
\* longest user-supplied string enumerated character by character
MaxLen == 2

(***************************************************************************)
(* Strings.                                                                *)
(***************************************************************************)
SQ == "'"
DQ == "\""
BS == "\\"
SP == " "

\* the characters user-supplied strings are drawn from
Sigma == {"a", SP, SQ, DQ, BS, "$", ";", "#"}

Strs(n) == UNION {[1..k -> Sigma] : k \in 0..n}

RECURSIVE Concat(_)
\* the concatenation of a sequence of strings
Concat(ss) == IF ss = <<>> THEN <<>> ELSE Head(ss) \o Concat(Tail(ss))

RECURSIVE JoinSp(_)
\* Array.prototype.join(" ")
JoinSp(ss) ==
    IF ss = <<>> THEN <<>>
    ELSE IF Len(ss) = 1 THEN ss[1]
    ELSE ss[1] \o <<SP>> \o JoinSp(Tail(ss))

\* String.prototype.replace(/'/g, "\\'"): every single quote becomes the two
\* characters backslash, single quote
ReplaceQuotes(d) ==
    Concat([i \in 1..Len(d) |-> IF d[i] = SQ THEN <<BS, SQ>> ELSE <<d[i]>>])

(***************************************************************************)
(* new URL(url): the WHATWG parser strips leading and trailing spaces,     *)
(* needs a scheme (and for http a host), and accepts any code point in the *)
(* path, query and fragment.  SchemeHost is the atom "http://h/".          *)
(***************************************************************************)
SchemeHost == "http://h/"

RECURSIVE StripLeft(_)
StripLeft(u) == IF u # <<>> /\ Head(u) = SP THEN StripLeft(Tail(u)) ELSE u

IsValidURL(u) == LET t == StripLeft(u) IN t # <<>> /\ t[1] = SchemeHost

(***************************************************************************)
(* The command strings the handlers build.                                 *)
(***************************************************************************)
BodyMethods == {<<"POST">>, <<"PUT">>, <<"PATCH">>}

\* a builder that attaches the data whatever the method
AttachesDataAnyMethod(a) == a.data # <<>>

\* if (data && ["POST", "PUT", "PATCH"].includes(method))
AttachesData(a) == a.data # <<>> /\ a.method \in BodyMethods

HeaderPieces(hs) ==
    [i \in 1..Len(hs) |->
        <<"--header", SP, DQ>> \o hs[i][1] \o <<":", SP>> \o hs[i][2] \o <<DQ>>]

RequestPieces(a) ==
    << <<"curl">>,
       <<"--max-time", SP, a.timeout>>,
       <<"--user-agent", SP, DQ>> \o a.user_agent \o <<DQ>>,
       <<"--silent">>,
       <<"--show-error">> >>
    \o (IF a.follow_redirects THEN << <<"--location">> >> ELSE <<>>)
    \o (IF a.include_headers THEN << <<"--include">> >> ELSE <<>>)
    \o << <<"--request", SP>> \o a.method >>
    \o HeaderPieces(a.headers)
    \o (IF AttachesData(a)
        THEN << <<"--data", SP, SQ>> \o ReplaceQuotes(a.data) \o <<SQ>> >>
        ELSE <<>>)
    \o << <<DQ>> \o a.url \o <<DQ>> >>

RequestCommand(a) == JoinSp(RequestPieces(a))

DownloadPieces(a) ==
    << <<"curl">>,
       <<"--max-time", SP, a.timeout>>,
       <<"--silent">>,
       <<"--show-error">>,
       <<"--progress-bar">> >>
    \o (IF a.follow_redirects THEN << <<"--location">> >> ELSE <<>>)
    \o << <<"--output", SP, DQ>> \o a.output_path \o <<DQ>>,
          <<DQ>> \o a.url \o <<DQ>> >>

DownloadCommand(a) == JoinSp(DownloadPieces(a))

(***************************************************************************)
(* child_process.exec runs the string with /bin/sh -c.  ShParse is the     *)
(* shell's reading of it: the commands it would run, each a sequence of    *)
(* words; ok = FALSE is a syntax error (nothing runs); expanded = TRUE     *)
(* when a parameter expansion replaced part of a word.                     *)
(***************************************************************************)
ShInit ==
    [mode |-> "u", cur |-> <<>>, inword |-> FALSE, argv |-> <<>>,
     cmds |-> <<>>, ok |-> TRUE, expanded |-> FALSE, comment |-> FALSE]

ShEndWord(st) ==
    IF st.inword
    THEN [st EXCEPT !.argv = Append(@, st.cur), !.cur = <<>>, !.inword = FALSE]
    ELSE st

\* ";" with no command before it is a syntax error
ShEndCmd(st) ==
    LET w == ShEndWord(st) IN
    IF w.argv = <<>> THEN [w EXCEPT !.ok = FALSE]
    ELSE [w EXCEPT !.cmds = Append(@, w.argv), !.argv = <<>>]

\* end of input: an open quote is a syntax error
ShFinish(st) ==
    LET w == ShEndWord(st) IN
    IF st.mode # "u" THEN [w EXCEPT !.ok = FALSE]
    ELSE IF w.argv = <<>> THEN w
    ELSE [w EXCEPT !.cmds = Append(@, w.argv), !.argv = <<>>]

ShLit(st, c) == [st EXCEPT !.cur = Append(@, c), !.inword = TRUE]

\* "$" starts an expansion when a name or special parameter follows
ShNameStart(c) == c \notin {"", SP, SQ, DQ, BS, ";"}

\* the character after position i, "" at the end
ShNext(s, i) == IF i < Len(s) THEN s[i + 1] ELSE ""

\* a backslash that quotes the next character, in double quotes and outside
ShEscapes(st, c, nx) ==
    /\ c = BS
    /\ \/ st.mode = "d" /\ nx \in {DQ, BS, "$"}
       \/ st.mode = "u" /\ nx # ""

ShExpands(st, c, nx) == st.mode # "s" /\ c = "$" /\ ShNameStart(nx)

\* how many characters the shell reads at position i: two for an escape or
\* the start of an expansion
ShTakes(st, s, i) ==
    IF ShEscapes(st, s[i], ShNext(s, i)) \/ ShExpands(st, s[i], ShNext(s, i)) THEN 2 ELSE 1

\* the shell's state after reading position i
ShStep(st, s, i) ==
    LET c == s[i]
        nx == ShNext(s, i)
    IN
    CASE ShEscapes(st, c, nx) -> ShLit(st, nx)
      [] ShExpands(st, c, nx) -> [st EXCEPT !.expanded = TRUE, !.inword = TRUE]
      [] st.mode = "s" /\ c = SQ -> [st EXCEPT !.mode = "u"]
      [] st.mode = "d" /\ c = DQ -> [st EXCEPT !.mode = "u"]
      [] st.mode = "u" /\ c = SP -> ShEndWord(st)
      [] st.mode = "u" /\ c = ";" -> ShEndCmd(st)
      [] st.mode = "u" /\ c = "#" /\ ~st.inword -> [st EXCEPT !.comment = TRUE]
      [] st.mode = "u" /\ c = SQ -> [st EXCEPT !.mode = "s", !.inword = TRUE]
      [] st.mode = "u" /\ c = DQ -> [st EXCEPT !.mode = "d", !.inword = TRUE]
      [] OTHER -> ShLit(st, c)

RECURSIVE ShScan(_, _, _)
\* the shell reads s from position i on; a syntax error or a comment ends it
ShScan(s, i, st) ==
    IF i > Len(s) \/ ~st.ok \/ st.comment THEN ShFinish(st)
    ELSE ShScan(s, i + ShTakes(st, s, i), ShStep(st, s, i))

ShParse(s) ==
    LET r == ShScan(s, 1, ShInit) IN
    [ok |-> r.ok, cmds |-> IF r.ok THEN r.cmds ELSE <<>>, expanded |-> r.expanded]

(***************************************************************************)
(* Response bodies.  A body is a sequence of tokens; a token stands for a  *)
(* run of n characters (UTF-16 code units, what String.length counts) of   *)
(* one kind, each w bytes wide in the process's UTF-8 output:              *)
(*   "[" "]" "{" "}" "," ":"   one structural character                    *)
(*   "ws"    n whitespace characters                                       *)
(*   "num"   a number of n digits c (few enough to be exact in a double)   *)
(*   "str"   a string literal: quote, n characters c, quote                *)
(*   "ustr"  a string literal cut before its closing quote                 *)
(*   "txt"   n characters that are no JSON (markup, prose)                 *)
(***************************************************************************)
Tok(t, n, w, c) == [t |-> t, n |-> n, w |-> w, c |-> c]
LB == Tok("[", 1, 1, "")
RB == Tok("]", 1, 1, "")
LC == Tok("{", 1, 1, "")
RC == Tok("}", 1, 1, "")
Comma == Tok(",", 1, 1, "")
Colon == Tok(":", 1, 1, "")
Ws(n) == Tok("ws", n, 1, "")
Num(c, n) == Tok("num", n, 1, c)
Str(c, n, w) == Tok("str", n, w, c)
Txt(n, w) == Tok("txt", n, w, "x")

\* String.length of a token: UTF-16 code units
Units(t) ==
    CASE t.t = "str" -> t.n + 2
      [] t.t = "ustr" -> t.n + 1
      [] OTHER -> t.n

\* the bytes of a token in the process's output (UTF-8)
Bytes(t) ==
    CASE t.t = "str" -> t.n * t.w + 2
      [] t.t = "ustr" -> t.n * t.w + 1
      [] OTHER -> t.n * t.w

RECURSIVE SumUnits(_, _, _)
SumUnits(s, lo, hi) ==
    IF lo > hi THEN 0
    ELSE IF lo = hi THEN Units(s[lo])
    ELSE LET mid == (lo + hi) \div 2 IN SumUnits(s, lo, mid) + SumUnits(s, mid + 1, hi)

RECURSIVE SumBytes(_, _, _)
SumBytes(s, lo, hi) ==
    IF lo > hi THEN 0
    ELSE IF lo = hi THEN Bytes(s[lo])
    ELSE LET mid == (lo + hi) \div 2 IN SumBytes(s, lo, mid) + SumBytes(s, mid + 1, hi)

\* String.length
StrLength(s) == SumUnits(s, 1, Len(s))

\* the size of the text in bytes
ByteLength(s) == SumBytes(s, 1, Len(s))

RECURSIVE WholeTokens(_, _, _, _)
\* the number of leading tokens of s that fit whole in k units (lo fits, hi + 1 does not)
WholeTokens(s, k, lo, hi) ==
    IF lo >= hi THEN lo
    ELSE LET mid == (lo + hi + 1) \div 2 IN
         IF SumUnits(s, 1, mid) <= k THEN WholeTokens(s, k, mid, hi)
         ELSE WholeTokens(s, k, lo, mid - 1)

\* the first r units of token t, 0 < r < Units(t)
CutTok(t, r) ==
    CASE t.t = "str" -> Tok("ustr", r - 1, t.w, t.c)
      [] t.t = "ustr" -> Tok("ustr", r - 1, t.w, t.c)
      [] OTHER -> [t EXCEPT !.n = r]

\* String.prototype.substring(0, k)
Substring(s, k) ==
    LET kk == IF k < 0 THEN 0 ELSE k
        i == WholeTokens(s, kk, 0, Len(s))
        r == kk - SumUnits(s, 1, i)
    IN IF i = Len(s) \/ r = 0 THEN SubSeq(s, 1, i)
       ELSE Append(SubSeq(s, 1, i), CutTok(s[i + 1], r))

(***************************************************************************)
(* JSON.parse on flat documents: a scalar, an array of scalars, or an      *)
(* object whose values are scalars.  A value is                            *)
(*   [k |-> "num" | "str" | "arr" | "obj", n, w, c, items]                 *)
(* with items the elements of an array, or the [key, val] entries of an    *)
(* object in JavaScript's property order.                                  *)
(***************************************************************************)
NotWs(t) == t.t # "ws"

IsScalarTok(t) == t.t = "str" \/ t.t = "num"

ScalarVal(t) == [k |-> t.t, n |-> t.n, w |-> t.w, c |-> t.c, items |-> <<>>]

KeyOf(t) == [c |-> t.c, n |-> t.n, w |-> t.w]

\* the longest run of one digit that is an array index (below 2^32 - 1)
MaxIndexDigits == 9

\* an integer-like property name ("1", "11", ...): JavaScript lists these first,
\* in ascending numeric order, whatever order they were written in
IsIndexKey(key) == key.c = "1" /\ key.n >= 1 /\ key.n <= MaxIndexDigits

\* the entries of an object literal as JavaScript keeps them: a repeated key
\* keeps its first place and its last value; index keys come first, ascending
OrderEntries(raw) ==
    LET m == Len(raw)
        pos == [j \in 1..m |-> j]
        firstOf(j) == \A i \in 1..(j - 1) : raw[i].key # raw[j].key
        lastVal(key) ==
            raw[CHOOSE j \in 1..m : raw[j].key = key /\ \A i \in (j + 1)..m : raw[i].key # key].val
        isIdx(n) == \E j \in 1..m : IsIndexKey(raw[j].key) /\ raw[j].key.n = n
        idxLens == SelectSeq([n \in 1..MaxIndexDigits |-> n], isIdx)
        strFirst(j) == ~IsIndexKey(raw[j].key) /\ firstOf(j)
        strPos == SelectSeq(pos, strFirst)
    IN [r \in 1..Len(idxLens) |->
            LET key == [c |-> "1", n |-> idxLens[r], w |-> 1] IN
            [key |-> key, val |-> lastVal(key)]]
       \o
       [r \in 1..Len(strPos) |->
            [key |-> raw[strPos[r]].key, val |-> lastVal(raw[strPos[r]].key)]]

NoValue == [k |-> "none", n |-> 0, w |-> 1, c |-> "", items |-> <<>>]

IsArrayText(sig) ==
    LET n == Len(sig) IN
    /\ n >= 2
    /\ sig[1].t = "["
    /\ sig[n].t = "]"
    /\ \/ n = 2
       \/ /\ n % 2 = 1
          /\ \A j \in 2..(n - 1) :
                IF j % 2 = 0 THEN IsScalarTok(sig[j]) ELSE sig[j].t = ","

IsObjectText(sig) ==
    LET n == Len(sig) IN
    /\ n >= 2
    /\ sig[1].t = "{"
    /\ sig[n].t = "}"
    /\ \/ n = 2
       \/ /\ n % 4 = 1
          /\ \A j \in 2..(n - 1) :
                CASE (j - 2) % 4 = 0 -> sig[j].t = "str"
                  [] (j - 2) % 4 = 1 -> sig[j].t = ":"
                  [] (j - 2) % 4 = 2 -> IsScalarTok(sig[j])
                  [] OTHER -> sig[j].t = ","

\* the entries of an object text in the order they are written
WrittenEntries(sig) ==
    [j \in 1..((Len(sig) - 1) \div 4) |->
        [key |-> KeyOf(sig[4 * j - 2]), val |-> ScalarVal(sig[4 * j])]]

\* JSON.parse(s): ok = FALSE where it throws
JSONParse(s) ==
    LET sig == SelectSeq(s, NotWs)
        n == Len(sig)
    IN
    IF n = 1 /\ IsScalarTok(sig[1])
    THEN [ok |-> TRUE, v |-> ScalarVal(sig[1])]
    ELSE IF IsArrayText(sig)
    THEN [ok |-> TRUE,
          v |-> [k |-> "arr", n |-> 0, w |-> 1, c |-> "",
                 items |-> [j \in 1..((n - 1) \div 2) |-> ScalarVal(sig[2 * j])]]]
    ELSE IF IsObjectText(sig)
    THEN [ok |-> TRUE,
          v |-> [k |-> "obj", n |-> 0, w |-> 1, c |-> "",
                 items |-> OrderEntries(WrittenEntries(sig))]]
    ELSE [ok |-> FALSE, v |-> NoValue]

ScalarTok(v) == Tok(v.k, v.n, v.w, v.c)

\* JSON.stringify(v, null, 2)
JSONStringify(v) ==
    LET m == Len(v.items) IN
    CASE v.k = "arr" ->
           IF m = 0 THEN <<LB, RB>>
           ELSE [t \in 1..(3 * m + 2) |->
                   IF t = 1 THEN LB
                   ELSE IF t = 3 * m + 1 THEN Ws(1)
                   ELSE IF t = 3 * m + 2 THEN RB
                   ELSE CASE (t - 2) % 3 = 0 -> Ws(3)
                          [] (t - 2) % 3 = 1 -> ScalarTok(v.items[(t - 2) \div 3 + 1])
                          [] OTHER -> Comma]
      [] v.k = "obj" ->
           IF m = 0 THEN <<LC, RC>>
           ELSE [t \in 1..(6 * m + 2) |->
                   IF t = 1 THEN LC
                   ELSE IF t = 6 * m + 1 THEN Ws(1)
                   ELSE IF t = 6 * m + 2 THEN RC
                   ELSE LET e == v.items[(t - 2) \div 6 + 1] IN
                        CASE (t - 2) % 6 = 0 -> Ws(3)
                          [] (t - 2) % 6 = 1 -> Str(e.key.c, e.key.n, e.key.w)
                          [] (t - 2) % 6 = 2 -> Colon
                          [] (t - 2) % 6 = 3 -> Ws(1)
                          [] (t - 2) % 6 = 4 -> ScalarTok(e.val)
                          [] OTHER -> Comma]
      [] OTHER -> <<ScalarTok(v)>>

(***************************************************************************)
(* handleCurlRequest after the process has ended: the response reducer.    *)
(***************************************************************************)
\* if (jsonString.length > 1000000)
StructuralCeiling == 1000000

\* slice(0, 100)
KeepFirst == 100

\* Array.prototype.slice(0, k)
Slice(items, k) == SubSeq(items, 1, IF Len(items) < k THEN Len(items) ELSE k)

\* a reducer that keeps the first 100 whatever the serialized length
ReduceValueAlways(v) ==
    IF v.k \in {"arr", "obj"} THEN [v EXCEPT !.items = Slice(v.items, KeepFirst)] ELSE v

\* lines 224-231: the value the final text is written from
ReduceValue(v) ==
    IF StrLength(JSONStringify(v)) > StructuralCeiling
    THEN IF v.k = "arr" THEN [v EXCEPT !.items = Slice(v.items, KeepFirst)]
         ELSE IF v.k = "obj" THEN [v EXCEPT !.items = Slice(v.items, KeepFirst)]
         ELSE v
    ELSE v

\* lines 199-206: the byte-stage truncation
Truncated(stdout, max) == StrLength(stdout) > max

TruncateResponse(stdout, max) ==
    IF Truncated(stdout, max) THEN Substring(stdout, max) ELSE stdout

\* lines 198-251: what the handler returns for a captured stdout
ReduceResponse(stdout, max) ==
    LET response == TruncateResponse(stdout, max)
        p == JSONParse(response)
    IN [isError |-> FALSE,
        isJson |-> p.ok,
        truncated |-> Truncated(stdout, max),
        originalSize |-> StrLength(stdout),
        text |-> IF p.ok THEN JSONStringify(ReduceValue(p.v)) ELSE response]

(***************************************************************************)
(* The inputs the model draws.                                             *)
(***************************************************************************)
\* most elements of an enumerated small array, most entries of a small object
MaxElems == 2

\* longest run of plain text enumerated
MaxText == 3

\* the seven verbs of the tool's schema, and two values outside it
SchemaMethods ==
    {<<"GET">>, <<"POST">>, <<"PUT">>, <<"DELETE">>, <<"PATCH">>, <<"HEAD">>, <<"OPTIONS">>}

Methods == SchemaMethods \cup {<<"TRACE">>, <<"get">>}

\* longer strings that close their quote and go on
Payloads ==
    { <<SQ, ";", "a", SP, "#">>,
      <<DQ, ";", "a", SP, "#">>,
      <<DQ, SP, "a", SP, DQ>>,
      <<"a", SQ, "a", SQ, "a">> }

UserStrs == Strs(MaxLen) \cup Payloads

DefaultUserAgent == <<"curl-mcp-server/1.1.0">>

\* the defaults of the destructuring at lines 139-149 and 272-277
Base ==
    [url |-> <<SchemeHost>>, method |-> <<"GET">>, headers |-> <<>>, data |-> <<>>,
     timeout |-> "30", follow_redirects |-> TRUE, include_headers |-> FALSE,
     user_agent |-> DefaultUserAgent, max_response_size |-> 800000,
     output_path |-> <<"out">>, given |-> TRUE]

\* arguments that break the schema's types.  The call carries no arguments
\* object at all (url is then undefined); headers is null; data is a value
\* that is no string (a number): the two atoms stand for those values
NoArguments == [Base EXCEPT !.given = FALSE, !.url = <<"undefined">>]
NullHeaders == << << <<"[null]">>, <<"[null]">> >> >>
NotAString == <<"[number]">>

IllTypedArgs ==
    {NoArguments, [Base EXCEPT !.headers = NullHeaders]}
    \cup {[Base EXCEPT !.method = m, !.data = NotAString] : m \in {<<"GET">>, <<"POST">>}}

Urls ==
    Strs(MaxLen) \cup {<<SchemeHost>> \o t : t \in UserStrs}
    \cup {<<SP, SchemeHost>>, <<"a", SchemeHost>>}

SmallSizes == 1..6
\* the default, the structural ceiling, and two values the schema also accepts,
\* the last above the capture buffer
LargeSizes == {800000, 1000000, 5000000, 20000000}

\* arguments that differ from the defaults in max_response_size alone
SizeArgs == {[Base EXCEPT !.max_response_size = mx] : mx \in SmallSizes \cup LargeSizes}

RequestArgs ==
    {[Base EXCEPT !.url = u] : u \in Urls}
    \cup {[Base EXCEPT !.method = m, !.data = d] :
            m \in {<<"GET">>, <<"POST">>}, d \in UserStrs}
    \cup {[Base EXCEPT !.method = m, !.data = d] : m \in Methods, d \in Strs(1) \cup Payloads}
    \cup {[Base EXCEPT !.user_agent = s] : s \in UserStrs}
    \cup {[Base EXCEPT !.headers = << <<k, v>> >>] : k \in {<<"a">>}, v \in UserStrs}
    \cup {[Base EXCEPT !.headers = << <<k, v>> >>] : k \in UserStrs, v \in {<<"a">>}}
    \cup {[Base EXCEPT !.headers = << << <<"a">>, <<"a">> >>, << <<"a", "a">>, v >> >>] : v \in Strs(1)}
    \cup {[Base EXCEPT !.follow_redirects = f, !.include_headers = h, !.timeout = t,
                       !.method = m, !.data = <<"a">>, !.url = u] :
            f \in BOOLEAN, h \in BOOLEAN, t \in {"30", "5"},
            m \in {<<"GET">>, <<"POST">>}, u \in {<<SchemeHost>>, <<"a">>}}
    \cup IllTypedArgs
    \cup SizeArgs

SizeDownloadArgs ==
    {[Base EXCEPT !.timeout = "300", !.url = u] : u \in {<<SchemeHost>>, <<"a">>}}

DownloadArgs ==
    {[Base EXCEPT !.timeout = "300", !.url = u] : u \in Urls}
    \cup {[Base EXCEPT !.timeout = "300", !.output_path = o, !.follow_redirects = f] :
            o \in UserStrs, f \in BOOLEAN}
    \cup {NoArguments}

(***************************************************************************)
(* The bodies the model draws for the process's stdout.                    *)
(***************************************************************************)
\* "[" e[1] "," e[2] ... "]", sep blanks after each comma, tail blanks at the end
ArrText(m, e, sep, tail) ==
    (IF m = 0 THEN <<LB, RB>>
     ELSE IF sep = 0
     THEN [t \in 1..(2 * m + 1) |->
             IF t = 1 THEN LB
             ELSE IF t = 2 * m + 1 THEN RB
             ELSE IF t % 2 = 0 THEN e[t \div 2] ELSE Comma]
     ELSE [t \in 1..(3 * m) |->
             IF t = 1 THEN LB
             ELSE IF t = 3 * m THEN RB
             ELSE CASE (t - 2) % 3 = 0 -> e[(t - 2) \div 3 + 1]
                    [] (t - 2) % 3 = 1 -> Comma
                    [] OTHER -> Ws(sep)])
    \o (IF tail = 0 THEN <<>> ELSE <<Ws(tail)>>)

\* "{" key[1] ":" val[1] "," ... "}", tail blanks at the end
ObjText(m, key, val, tail) ==
    (IF m = 0 THEN <<LC, RC>>
     ELSE [t \in 1..(4 * m + 1) |->
             IF t = 1 THEN LC
             ELSE IF t = 4 * m + 1 THEN RC
             ELSE CASE (t - 2) % 4 = 0 -> key[(t - 2) \div 4 + 1]
                    [] (t - 2) % 4 = 1 -> Colon
                    [] (t - 2) % 4 = 2 -> val[(t - 2) \div 4 + 1]
                    [] OTHER -> Comma])
    \o (IF tail = 0 THEN <<>> ELSE <<Ws(tail)>>)

\* "u" is a character two bytes wide in UTF-8, "a" and the digits one byte wide
SmallScalars == {Num("7", 1), Num("7", 2), Str("a", 1, 1), Str("u", 1, 2)}
SmallKeys == {Str("a", 1, 1), Str("1", 1, 1), Str("1", 2, 1)}
SmallVals == {Num("7", 1), Str("a", 1, 1)}

SmallArrays ==
    UNION {{ArrText(m, es, sep, tail) :
                es \in [1..m -> SmallScalars], sep \in 0..1, tail \in 0..1} :
           m \in 0..MaxElems}

SmallObjects ==
    UNION {{ObjText(m, ks, vs, tail) :
                ks \in [1..m -> SmallKeys], vs \in [1..m -> SmallVals], tail \in 0..1} :
           m \in 0..MaxElems}

SmallTexts ==
    {<<>>}
    \cup {<<t>> : t \in SmallScalars \cup {Num("7", 3), Str("u", 3, 2)}}
    \cup {<<t, Ws(1)>> : t \in SmallScalars}
    \cup {<<Txt(n, w)>> : n \in 1..MaxText, w \in 1..3}
    \cup {<<Txt(1, 1), Ws(1)>>, <<LB, Num("7", 1), Comma, RB>>, <<LB, Num("7", 1)>>,
          <<LC, Str("a", 1, 1), Colon, RC>>, <<Num("7", 1), Ws(1), Num("7", 1)>>}

SmallDocs == SmallArrays \cup SmallObjects \cup SmallTexts

\* bodies around the structural ceiling: element j of each is j characters
\* longer than the base, so no two elements are equal
BigStr(base, j) == Str("a", base + j, 1)

LargeDocs ==
    { ArrText(500, [j \in 1..500 |-> BigStr(2500, j)], 0, 1),
      ArrText(101, [j \in 1..101 |-> BigStr(20000, j)], 0, 0),
      ArrText(150, [j \in 1..150 |-> BigStr(6588, j)], 0, 0),
      ObjText(101,
              [j \in 1..101 |-> IF j = 101 THEN Str("1", 1, 1) ELSE Str("a", j, 1)],
              [j \in 1..101 |-> BigStr(10000, j)], 0),
      ObjText(120, [j \in 1..120 |-> Str("a", j, 1)],
              [j \in 1..120 |-> BigStr(10000, j)], 0),
      ArrText(120, [j \in 1..120 |-> Num("7", 1 + (j % 2))], 1, 1),
      <<Str("a", 1200000, 1)>>,
      <<Txt(3000000, 1)>>,
      <<Txt(900000, 1)>>,
      <<Txt(11000000, 1)>> }

FewDocs == {<<>>, <<LB, Num("7", 1), RB>>, <<Txt(2, 1)>>}

\* what the shell writes to stderr for a command it cannot read, what curl writes
ShSyntaxError == "sh: Syntax error: Unterminated quoted string"
CurlDiagnostic == "curl: (6) Could not resolve host"
CurlTimedOut == "curl: (28) Operation timed out"

\* how the spawned process can end: exit code, stdout, stderr
FewOutcomes ==
    {[exit |-> 0, stdout |-> d, stderr |-> ""] : d \in FewDocs}
    \cup {[exit |-> 0, stdout |-> <<Txt(2, 1)>>, stderr |-> CurlDiagnostic],
          [exit |-> 6, stdout |-> <<>>, stderr |-> CurlDiagnostic],
          [exit |-> 28, stdout |-> <<Txt(2, 1)>>, stderr |-> CurlTimedOut]}

\* the bodies drawn for a request with the given max_response_size
DocsFor(mx) == IF mx \in LargeSizes THEN SmallDocs \cup LargeDocs ELSE SmallDocs

DocOutcomes(a) ==
    {[exit |-> 0, stdout |-> d, stderr |-> ""] : d \in DocsFor(a.max_response_size)}
    \cup FewOutcomes

(***************************************************************************)
(* child_process.exec(command, {maxBuffer}) as the handler sees it.        *)
(***************************************************************************)
\* maxBuffer: 10 * 1024 * 1024
MaxBuffer == 10485760

\* exec's default maxBuffer (1024 * 1024), which handleCurlDownload runs under
DefaultMaxBuffer == 1048576

\* how the shell process ends: a command line the shell cannot read runs
\* nothing and exits 2
Ended(sh, o) ==
    IF sh.ok THEN o ELSE [exit |-> 2, stdout |-> <<>>, stderr |-> ShSyntaxError]

\* an executor that resolves whatever the exit code
ExecSettlesAnyExit(sh, oo, maxBuffer) ==
    LET o == Ended(sh, oo) IN
    IF ByteLength(o.stdout) > maxBuffer
    THEN [resolved |-> FALSE, message |-> "stdout maxBuffer length exceeded",
          stdout |-> <<>>, stderr |-> o.stderr]
    ELSE [resolved |-> TRUE, message |-> "", stdout |-> o.stdout, stderr |-> o.stderr]

\* the promise execAsync returns: resolved with {stdout, stderr}, or rejected
\* with an error carrying message and stderr
ExecSettles(sh, oo, maxBuffer) ==
    LET o == Ended(sh, oo) IN
    IF ByteLength(o.stdout) > maxBuffer
    THEN [resolved |-> FALSE, message |-> "stdout maxBuffer length exceeded",
          stdout |-> <<>>, stderr |-> o.stderr]
    ELSE IF o.exit # 0
    THEN [resolved |-> FALSE, message |-> "Command failed", stdout |-> o.stdout,
          stderr |-> o.stderr]
    ELSE [resolved |-> TRUE, message |-> "", stdout |-> o.stdout, stderr |-> o.stderr]

(***************************************************************************)
(* What a handler returns.  keys are the properties of the JSON object the *)
(* text carries; a request's success text is the bare response, no object. *)
(***************************************************************************)
NoResult ==
    [isError |-> FALSE, keys |-> {}, text |-> <<>>, error |-> "", detail |-> <<>>,
     stderr |-> ""]

\* lines 253-267: { error: error.message, stderr: error.stderr || null }, isError
RequestError(message, detail, stderr) ==
    [isError |-> TRUE, keys |-> {"error", "stderr"}, text |-> <<>>, error |-> message,
     detail |-> detail, stderr |-> stderr]

\* lines 318-330: { error: error.message }, isError
DownloadError(message, detail) ==
    [isError |-> TRUE, keys |-> {"error"}, text |-> <<>>, error |-> message,
     detail |-> detail, stderr |-> ""]

\* lines 233-250: the text alone
RequestSuccess(text) ==
    [isError |-> FALSE, keys |-> {}, text |-> text, error |-> "", detail |-> <<>>,
     stderr |-> ""]

\* lines 305-316: { success, output_path, message }
DownloadSuccess ==
    [isError |-> FALSE, keys |-> {"success", "output_path", "message"}, text |-> <<>>,
     error |-> "", detail |-> <<>>, stderr |-> ""]

NoLocals == [isJson |-> FALSE, truncated |-> FALSE, originalSize |-> 0]

(***************************************************************************)
(* The state: one record per tool invocation.                              *)
(***************************************************************************)
\* most invocations in flight at once
MaxInvocations == 2

Invs == 1..MaxInvocations

\* the invocation the specifications of a single call run
Solo == {1}

VARIABLES
    pc,        \* "idle", "running" (awaiting execAsync), "done"
    tool,      \* "curl_request" or "curl_download"
    args,      \* the arguments of the call
    command,   \* the command string handed to exec
    spawned,   \* how many times the invocation called exec
    proc,      \* the shell's reading of the command: what exec runs
    outcome,   \* how the process ended
    locals,    \* isJson, truncated, originalSize of handleCurlRequest
    result,    \* what the handler returned
    elapsed    \* the call's timeout has passed since its process was spawned

vars == <<pc, tool, args, command, spawned, proc, outcome, locals, result, elapsed>>

NoProc == [ok |-> FALSE, cmds |-> <<>>, expanded |-> FALSE]

NoOutcome == [exit |-> 0, stdout |-> <<>>, stderr |-> ""]

Init ==
    /\ pc = [i \in Invs |-> "idle"]
    /\ tool = [i \in Invs |-> ""]
    /\ args = [i \in Invs |-> Base]
    /\ command = [i \in Invs |-> <<>>]
    /\ spawned = [i \in Invs |-> 0]
    /\ proc = [i \in Invs |-> NoProc]
    /\ outcome = [i \in Invs |-> NoOutcome]
    /\ locals = [i \in Invs |-> NoLocals]
    /\ result = [i \in Invs |-> NoResult]
    /\ elapsed = [i \in Invs |-> FALSE]

\* a handler that skips the validation
UrlAcceptedAlways(u) == TRUE

\* lines 151-156 and 279-284: new URL(url) does not throw
UrlAccepted(u) == IsValidURL(u)

\* what handleCurlRequest throws before it reaches exec, "" when nothing:
\* the destructuring (139-149), new URL (152-156), Object.entries(headers)
\* (179), data.replace (185)
RequestFault(a) ==
    IF ~a.given THEN "Cannot destructure property 'url' of 'args'"
    ELSE IF ~UrlAccepted(a.url) THEN "Invalid URL"
    ELSE IF a.headers = NullHeaders THEN "Cannot convert undefined or null to object"
    ELSE IF AttachesData(a) /\ a.data = NotAString THEN "data.replace is not a function"
    ELSE ""

\* what handleCurlDownload throws before it reaches exec: the destructuring
\* (272-277), new URL (280-284)
DownloadFault(a) ==
    IF ~a.given THEN "Cannot destructure property 'url' of 'args'"
    ELSE IF ~UrlAccepted(a.url) THEN "Invalid URL"
    ELSE ""

\* the text after the message: the url for "Invalid URL: <url>"
FaultDetail(f, a) == IF f = "Invalid URL" THEN a.url ELSE <<>>

\* handleCurlRequest, lines 137-196: up to the await of execAsync
CurlRequestCalled(i, a) ==
    /\ pc[i] = "idle"
    /\ tool' = [tool EXCEPT ![i] = "curl_request"]
    /\ args' = [args EXCEPT ![i] = a]
    /\ IF RequestFault(a) = ""
       THEN /\ command' = [command EXCEPT ![i] = RequestCommand(a)]
            /\ spawned' = [spawned EXCEPT ![i] = @ + 1]
            /\ proc' = [proc EXCEPT ![i] = ShParse(command'[i])]
            /\ pc' = [pc EXCEPT ![i] = "running"]
            /\ UNCHANGED result
       ELSE /\ result' = [result EXCEPT ![i] =
                            RequestError(RequestFault(a), FaultDetail(RequestFault(a), a), "")]
            /\ pc' = [pc EXCEPT ![i] = "done"]
            /\ UNCHANGED <<command, spawned, proc>>
    /\ UNCHANGED <<outcome, locals, elapsed>>

\* handleCurlDownload, lines 270-303: up to the await of execAsync
CurlDownloadCalled(i, a) ==
    /\ pc[i] = "idle"
    /\ tool' = [tool EXCEPT ![i] = "curl_download"]
    /\ args' = [args EXCEPT ![i] = a]
    /\ IF DownloadFault(a) = ""
       THEN /\ command' = [command EXCEPT ![i] = DownloadCommand(a)]
            /\ spawned' = [spawned EXCEPT ![i] = @ + 1]
            /\ proc' = [proc EXCEPT ![i] = ShParse(command'[i])]
            /\ pc' = [pc EXCEPT ![i] = "running"]
            /\ UNCHANGED result
       ELSE /\ result' = [result EXCEPT ![i] =
                            DownloadError(DownloadFault(a), FaultDetail(DownloadFault(a), a))]
            /\ pc' = [pc EXCEPT ![i] = "done"]
            /\ UNCHANGED <<command, spawned, proc>>
    /\ UNCHANGED <<outcome, locals, elapsed>>

\* a handler that keeps the arguments in a field of the server object, which
\* the latest call overwrites: every invocation reads the same one
CurlRequestResumesShared(i, o) ==
    /\ pc[i] = "running"
    /\ tool[i] = "curl_request"
    /\ LET x == ExecSettles(proc[i], o, MaxBuffer)
           r == ReduceResponse(x.stdout, args[1].max_response_size)
       IN /\ outcome' = [outcome EXCEPT ![i] = Ended(proc[i], o)]
          /\ IF x.resolved
             THEN /\ result' = [result EXCEPT ![i] = RequestSuccess(r.text)]
                  /\ locals' = [locals EXCEPT ![i] =
                                  [isJson |-> r.isJson, truncated |-> r.truncated,
                                   originalSize |-> r.originalSize]]
             ELSE /\ result' = [result EXCEPT ![i] =
                                  RequestError(x.message, command[i], x.stderr)]
                  /\ UNCHANGED locals
    /\ pc' = [pc EXCEPT ![i] = "done"]
    /\ UNCHANGED <<tool, args, command, spawned, proc, elapsed>>

\* handleCurlRequest, lines 194-267: the process ends, the handler resumes
CurlRequestResumes(i, o) ==
    /\ pc[i] = "running"
    /\ tool[i] = "curl_request"
    /\ LET x == ExecSettles(proc[i], o, MaxBuffer)
           r == ReduceResponse(x.stdout, args[i].max_response_size)
       IN /\ outcome' = [outcome EXCEPT ![i] = Ended(proc[i], o)]
          /\ IF x.resolved
             THEN /\ result' = [result EXCEPT ![i] = RequestSuccess(r.text)]
                  /\ locals' = [locals EXCEPT ![i] =
                                  [isJson |-> r.isJson, truncated |-> r.truncated,
                                   originalSize |-> r.originalSize]]
             ELSE /\ result' = [result EXCEPT ![i] =
                                  RequestError(x.message, command[i], x.stderr)]
                  /\ UNCHANGED locals
    /\ pc' = [pc EXCEPT ![i] = "done"]
    /\ UNCHANGED <<tool, args, command, spawned, proc, elapsed>>

\* handleCurlDownload, lines 303-330: the process ends, the handler resumes
CurlDownloadResumes(i, o) ==
    /\ pc[i] = "running"
    /\ tool[i] = "curl_download"
    /\ LET x == ExecSettles(proc[i], o, DefaultMaxBuffer)
       IN /\ outcome' = [outcome EXCEPT ![i] = Ended(proc[i], o)]
          /\ result' = [result EXCEPT ![i] =
                          IF x.resolved THEN DownloadSuccess
                          ELSE DownloadError(x.message, command[i])]
    /\ pc' = [pc EXCEPT ![i] = "done"]
    /\ UNCHANGED <<tool, args, command, spawned, proc, locals, elapsed>>

\* the handlers over every enumerated argument, a few process outcomes each
Next ==
    \E i \in Solo :
        \/ pc[i] = "idle" /\ \E a \in RequestArgs : CurlRequestCalled(i, a)
        \/ pc[i] = "idle" /\ \E a \in DownloadArgs : CurlDownloadCalled(i, a)
        \/ pc[i] = "running" /\ \E o \in FewOutcomes : CurlRequestResumes(i, o)
        \/ pc[i] = "running" /\ \E o \in FewOutcomes : CurlDownloadResumes(i, o)

Spec == Init /\ [][Next]_vars

\* the handlers over every enumerated response body and max_response_size
NextReduce ==
    \E i \in Solo :
        \/ pc[i] = "idle" /\ \E a \in SizeArgs : CurlRequestCalled(i, a)
        \/ pc[i] = "idle" /\ \E a \in SizeDownloadArgs : CurlDownloadCalled(i, a)
        \/ pc[i] = "running" /\ tool[i] = "curl_request"
              /\ \E o \in DocOutcomes(args[i]) : CurlRequestResumes(i, o)
        \/ pc[i] = "running" /\ \E o \in FewOutcomes : CurlDownloadResumes(i, o)

SpecReduce == Init /\ [][NextReduce]_vars

(***************************************************************************)
(* Time.  Neither handler sets a timer or passes exec a timeout: the only  *)
(* time limit is the --max-time argument curl is given.                    *)
(***************************************************************************)
\* the timeout of the call passes while its process runs; nothing in the
\* handler reacts to it
TimeoutElapses(i) ==
    /\ pc[i] = "running"
    /\ ~elapsed[i]
    /\ elapsed' = [elapsed EXCEPT ![i] = TRUE]
    /\ UNCHANGED <<pc, tool, args, command, spawned, proc, outcome, locals, result>>

\* the values of timeout the model draws, all positive
Timeouts == {"30", "5", "300"}

\* word c of a command is curl with a time limit
CurlWithMaxTime(c) ==
    /\ c[1] = <<"curl">>
    /\ \E j \in 1..(Len(c) - 1) :
          c[j] = <<"--max-time">> /\ \E t \in Timeouts : c[j + 1] = <<t>>

\* every command the shell runs is curl with a time limit
HonoursMaxTime(sh) ==
    sh.ok /\ \A k \in 1..Len(sh.cmds) : CurlWithMaxTime(sh.cmds[k])

\* how the process of invocation i can end now.  A command the shell cannot
\* read ends at once.  Before the timeout, any way but curl's exit code 28.
\* At the timeout, curl exits 28; a command with no time limit that is
\* still running need never end
ProcessEnds(i) ==
    IF ~proc[i].ok THEN {NoOutcome}
    ELSE IF ~elapsed[i] THEN {o \in FewOutcomes : o.exit # 28}
    ELSE IF HonoursMaxTime(proc[i]) THEN {o \in FewOutcomes : o.exit = 28}
    ELSE {}

TimeoutRequestArgs ==
    {[Base EXCEPT !.user_agent = s] : s \in UserStrs}
    \cup {[Base EXCEPT !.timeout = t, !.url = u] :
            t \in {"30", "5"}, u \in {<<SchemeHost>>, <<"a">>}}

TimeoutDownloadArgs ==
    {[Base EXCEPT !.timeout = "300", !.output_path = o] : o \in Strs(1) \cup Payloads}

\* what happens while a handler awaits: the timeout passes, the process ends
\* and the handler resumes
Awaited(i) ==
    \/ TimeoutElapses(i)
    \/ pc[i] = "running" /\ \E o \in ProcessEnds(i) : CurlRequestResumes(i, o)
    \/ pc[i] = "running" /\ \E o \in ProcessEnds(i) : CurlDownloadResumes(i, o)

NextTimeout ==
    \E i \in Solo :
        \/ pc[i] = "idle" /\ \E a \in TimeoutRequestArgs : CurlRequestCalled(i, a)
        \/ pc[i] = "idle" /\ \E a \in TimeoutDownloadArgs : CurlDownloadCalled(i, a)
        \/ Awaited(i)

\* time passes, a process that can end does, and Node resumes the handler
SpecTimeout == Init /\ [][NextTimeout]_vars /\ \A i \in Solo : WF_vars(Awaited(i))

\* the calls the concurrent specification draws
ConcurrentRequestArgs ==
    {Base, [Base EXCEPT !.max_response_size = 1], [Base EXCEPT !.url = <<"a">>],
     [Base EXCEPT !.method = <<"POST">>, !.data = <<SQ>>]}

ConcurrentDownloadArgs == {[Base EXCEPT !.timeout = "300"], NoArguments}

\* the CallTool handler (lines 123-134) is async: a second call can start
\* while the first awaits its process, and the processes end in any order
NextConcurrent ==
    \E i \in Invs :
        \/ pc[i] = "idle" /\ \E a \in ConcurrentRequestArgs : CurlRequestCalled(i, a)
        \/ pc[i] = "idle" /\ \E a \in ConcurrentDownloadArgs : CurlDownloadCalled(i, a)
        \/ pc[i] = "running" /\ \E o \in FewOutcomes : CurlRequestResumes(i, o)
        \/ pc[i] = "running" /\ \E o \in FewOutcomes : CurlDownloadResumes(i, o)

SpecConcurrent == Init /\ [][NextConcurrent]_vars

(***************************************************************************)
(* Vocabulary of the properties.                                           *)
(***************************************************************************)
IsRequest(i) == tool[i] = "curl_request"
IsDownload(i) == tool[i] = "curl_download"
Done(i) == pc[i] = "done"
Called(i) == pc[i] # "idle"

Range(s) == {s[j] : j \in 1..Len(s)}

\* the arguments have the types the schema declares (url may be any string)
WellTyped(a) == a.given /\ a.headers # NullHeaders /\ a.data # NotAString

\* a string with no character the shell gives a meaning to
Plain(s) == Range(s) \cap (Sigma \ {"a"}) = {}

Min(x, y) == IF x < y THEN x ELSE y

\* exec resolved: the shell could read the command, the process exited 0 and
\* its output fitted the capture buffer
ProcessSucceeded(i) ==
    /\ Done(i)
    /\ spawned[i] = 1
    /\ proc[i].ok
    /\ outcome[i].exit = 0
    /\ ByteLength(outcome[i].stdout) <= MaxBuffer

\* p is the first Units(p) characters of token t
TokPrefix(p, t) ==
    \/ p = t
    \/ /\ p.c = t.c
       /\ p.w = t.w
       /\ Units(p) < Units(t)
       /\ IF t.t \in {"str", "ustr"} THEN p.t = "ustr" ELSE p.t = t.t

\* text x is a leading part of text s
IsPrefix(x, s) ==
    /\ Len(x) <= Len(s)
    /\ \A j \in 1..Len(x) : IF j < Len(x) THEN x[j] = s[j] ELSE TokPrefix(x[j], s[j])

\* the argument vector a request is meant to hand the client: every value one
\* argument, as supplied
IntendedRequestArgv(a) ==
    << <<"curl">>, <<"--max-time">>, <<a.timeout>>, <<"--user-agent">>, a.user_agent,
       <<"--silent">>, <<"--show-error">> >>
    \o (IF a.follow_redirects THEN << <<"--location">> >> ELSE <<>>)
    \o (IF a.include_headers THEN << <<"--include">> >> ELSE <<>>)
    \o << <<"--request">>, a.method >>
    \o Concat([j \in 1..Len(a.headers) |->
                 << <<"--header">>, a.headers[j][1] \o <<":", SP>> \o a.headers[j][2] >>])
    \o (IF a.data # <<>> /\ a.method \in BodyMethods
        THEN << <<"--data">>, a.data >> ELSE <<>>)
    \o << a.url >>

IntendedDownloadArgv(a) ==
    << <<"curl">>, <<"--max-time">>, <<a.timeout>>, <<"--silent">>, <<"--show-error">>,
       <<"--progress-bar">> >>
    \o (IF a.follow_redirects THEN << <<"--location">> >> ELSE <<>>)
    \o << <<"--output">>, a.output_path, a.url >>

\* the shell runs exactly the one command, with exactly these arguments
RunsExactly(i, argv) == proc[i] = [ok |-> TRUE, cmds |-> <<argv>>, expanded |-> FALSE]

\* the value JSON.parse read from the response the handler kept
ParsedResponse(i) ==
    JSONParse(TruncateResponse(outcome[i].stdout, args[i].max_response_size)).v

\* the parsed response serializes above the structural ceiling
Oversized(i) ==
    /\ locals[i].isJson
    /\ StrLength(JSONStringify(ParsedResponse(i))) > StructuralCeiling

TruncationKeys == {"original_size", "truncated_size", "truncation_note", "warning"}

(***************************************************************************)
(* C1.  When the (possibly truncated) response is no JSON, request returns *)
(* as non-error text exactly the first min(originalSize, maxResponseBytes) *)
(* bytes of the raw output, so the text never exceeds maxResponseBytes     *)
(* bytes.                                                                  *)
(***************************************************************************)
C1_ByteTruncatedText ==
    \A i \in Invs :
        (IsRequest(i) /\ ProcessSucceeded(i) /\ ~locals[i].isJson)
        => /\ ~result[i].isError
           /\ IsPrefix(result[i].text, outcome[i].stdout)
           /\ ByteLength(result[i].text)
                = Min(ByteLength(outcome[i].stdout), args[i].max_response_size)
           /\ ByteLength(result[i].text) <= args[i].max_response_size

(***************************************************************************)
(* C2.  For request and for download, a url that new URL rejects yields an *)
(* error result "Invalid URL: <url>", and exec is never called for that    *)
(* invocation: no command is built and no process is spawned.              *)
(***************************************************************************)
C2_InvalidUrlNeverSpawns ==
    \A i \in Invs :
        (Called(i) /\ WellTyped(args[i]) /\ ~IsValidURL(args[i].url))
        => /\ Done(i)
           /\ result[i].isError
           /\ result[i].error = "Invalid URL"
           /\ result[i].detail = args[i].url
           /\ spawned[i] = 0
           /\ command[i] = <<>>
           /\ proc[i] = NoProc

C2_Witness ==
    \E i \in Invs :
        /\ Done(i)
        /\ IsDownload(i)
        /\ args[i].url = <<"a", "a">>
        /\ result[i].isError
        /\ spawned[i] = 0

(***************************************************************************)
(* C3.  For POST, PUT and PATCH and a body containing a single quote, the  *)
(* client receives the body as its data argument character for character,  *)
(* and the shell runs nothing but the one curl command that was built.     *)
(***************************************************************************)
C3_BodyDeliveredLiterally ==
    \A i \in Invs :
        (/\ Called(i)
         /\ IsRequest(i)
         /\ IsValidURL(args[i].url)
         /\ args[i].method \in BodyMethods
         /\ SQ \in Range(args[i].data)
         /\ Plain(Tail(StripLeft(args[i].url)))
         /\ Plain(args[i].user_agent)
         /\ args[i].headers = <<>>)
        => RunsExactly(i, IntendedRequestArgv(args[i]))

(***************************************************************************)
(* C4.  For a request whose method is not POST, PUT or PATCH, the command  *)
(* has no --data argument whatever data was supplied, and the request goes *)
(* on to run the client without error.                                     *)
(***************************************************************************)
C4_NoBodyForOtherMethods ==
    \A i \in Invs :
        (/\ Called(i)
         /\ IsRequest(i)
         /\ WellTyped(args[i])
         /\ IsValidURL(args[i].url)
         /\ args[i].method \notin BodyMethods)
        => /\ "--data" \notin Range(command[i])
           /\ \A c \in Range(proc[i].cmds) : <<"--data">> \notin Range(c)
           /\ spawned[i] = 1
           /\ (Plain(Tail(StripLeft(args[i].url))) /\ Plain(args[i].user_agent)
                 /\ args[i].headers = <<>> /\ args[i].method \in SchemaMethods)
              => /\ RunsExactly(i, IntendedRequestArgv(args[i]))
                 /\ (Done(i) /\ outcome[i].exit = 0) => ~result[i].isError

C4_Witness ==
    \E i \in Invs :
        /\ Done(i)
        /\ IsRequest(i)
        /\ args[i].method = <<"GET">>
        /\ args[i].data = <<SQ, ";", "a", SP, "#">>
        /\ outcome[i].exit = 0
        /\ ~result[i].isError

(***************************************************************************)
(* C5.  When the response parses as JSON and its formatted serialization   *)
(* exceeds the structural ceiling, the output is the serialization of the  *)
(* first 100 elements of a sequence, or of the first 100 entries of a      *)
(* keyed structure in the order they were written, and the result is       *)
(* marked as structurally truncated.                                       *)
(***************************************************************************)
\* the value with its entries in the order the response wrote them
AsWritten(i) ==
    LET v == ParsedResponse(i)
        sig == SelectSeq(TruncateResponse(outcome[i].stdout, args[i].max_response_size),
                         NotWs)
    IN IF v.k = "obj" THEN [v EXCEPT !.items = WrittenEntries(sig)] ELSE v

C5_StructuralReduction ==
    \A i \in Invs :
        (/\ IsRequest(i)
         /\ ProcessSucceeded(i)
         /\ Oversized(i)
         /\ ParsedResponse(i).k \in {"arr", "obj"})
        => /\ ~result[i].isError
           /\ result[i].text =
                JSONStringify([AsWritten(i) EXCEPT !.items = SubSeq(@, 1, Min(Len(@), KeepFirst))])
           /\ result[i].keys \cap {"truncated", "truncatedStructurally"} # {}

(***************************************************************************)
(* C6.  If the raw output is no longer than max_response_size and is valid *)
(* JSON whose formatted serialization does not exceed the structural       *)
(* ceiling, no truncation happens and the returned text is the             *)
(* serialization of the parsed output: reading it back gives the same      *)
(* value, no element or entry removed or changed.                          *)
(***************************************************************************)
C6_SmallJsonUntouched ==
    \A i \in Invs :
        (/\ IsRequest(i)
         /\ ProcessSucceeded(i)
         /\ StrLength(outcome[i].stdout) <= args[i].max_response_size
         /\ JSONParse(outcome[i].stdout).ok
         /\ StrLength(JSONStringify(JSONParse(outcome[i].stdout).v)) <= StructuralCeiling)
        => /\ ~result[i].isError
           /\ ~locals[i].truncated
           /\ locals[i].isJson
           /\ locals[i].originalSize = StrLength(outcome[i].stdout)
           /\ result[i].text = JSONStringify(JSONParse(outcome[i].stdout).v)
           /\ JSONParse(result[i].text) = JSONParse(outcome[i].stdout)
           /\ result[i].keys = {}

C6_Witness ==
    \E i \in Invs :
        /\ IsRequest(i)
        /\ ProcessSucceeded(i)
        /\ args[i].max_response_size = 800000
        /\ JSONParse(outcome[i].stdout).ok
        /\ JSONParse(outcome[i].stdout).v.k = "arr"
        /\ Len(JSONParse(outcome[i].stdout).v.items) = 120
        /\ Len(JSONParse(result[i].text).v.items) = 120

(***************************************************************************)
(* C7.  The final text request returns is never longer than the structural *)
(* ceiling, also after re-serialization and after the reduction to 100     *)
(* elements or entries.                                                    *)
(***************************************************************************)
C7_FinalTextWithinCeiling ==
    \A i \in Invs :
        (IsRequest(i) /\ Done(i) /\ ~result[i].isError)
        => StrLength(result[i].text) <= StructuralCeiling

(***************************************************************************)
(* C8.  Whenever request truncates the response, by size or structurally,  *)
(* the result carries the truncation metadata (original size, applied      *)
(* limit, note, advisory), and it carries none when nothing was truncated. *)
(***************************************************************************)
C8_TruncationMetadata ==
    \A i \in Invs :
        (IsRequest(i) /\ ProcessSucceeded(i))
        => IF locals[i].truncated
              \/ (Oversized(i) /\ Len(ParsedResponse(i).items) > KeepFirst)
           THEN TruncationKeys \subseteq result[i].keys
           ELSE TruncationKeys \cap result[i].keys = {}

(***************************************************************************)
(* C9.  A request whose method is not one of the seven verbs of the schema *)
(* fails with an invalid-method error before the command is built, and no  *)
(* process is spawned.                                                     *)
(***************************************************************************)
C9_InvalidMethodRejected ==
    \A i \in Invs :
        (/\ Called(i)
         /\ IsRequest(i)
         /\ IsValidURL(args[i].url)
         /\ args[i].method \notin SchemaMethods)
        => /\ Done(i)
           /\ result[i].isError
           /\ result[i].error = "Invalid method"
           /\ spawned[i] = 0
           /\ command[i] = <<>>

(***************************************************************************)
(* C10.  For every url that passes validation, every header key and value  *)
(* and every user agent, the value stays inside its own token of the       *)
(* executed command: the client receives it literally as one argument, and *)
(* it neither adds arguments nor runs another command.                     *)
(***************************************************************************)
C10_ValuesStayInTheirToken ==
    \A i \in Invs :
        (/\ Called(i)
         /\ IsValidURL(args[i].url)
         /\ args[i].method \in SchemaMethods
         /\ Plain(args[i].data)
         /\ Plain(args[i].output_path))
        => RunsExactly(i, IF IsRequest(i) THEN IntendedRequestArgv(args[i])
                          ELSE IntendedDownloadArgv(args[i]))

(***************************************************************************)
(* C11.  As the claim states it: when the process exits nonzero or writes  *)
(* to stderr but stdout was captured, request does not fail: the captured  *)
(* stdout is reduced and returned.                                         *)
(***************************************************************************)
\* the process ran and its stdout fitted the capture buffer
StdoutCaptured(i) ==
    /\ Done(i)
    /\ spawned[i] = 1
    /\ proc[i].ok
    /\ ByteLength(outcome[i].stdout) <= MaxBuffer

C11_NonzeroExitNotFatal ==
    \A i \in Invs :
        (/\ IsRequest(i)
         /\ StdoutCaptured(i)
         /\ outcome[i].stdout # <<>>
         /\ (outcome[i].exit # 0 \/ outcome[i].stderr # ""))
        => /\ ~result[i].isError
           /\ result[i].text
                = ReduceResponse(outcome[i].stdout, args[i].max_response_size).text

(***************************************************************************)
(* C11, amended.  The exit code alone decides: with exit code 0 the        *)
(* captured stdout is reduced and returned whatever was written to stderr; *)
(* with a nonzero exit code the request fails with "Command failed" and    *)
(* the process's stderr, whatever stdout was captured.                     *)
(***************************************************************************)
C11_ExitCodeDecides ==
    \A i \in Invs :
        (IsRequest(i) /\ StdoutCaptured(i))
        => IF outcome[i].exit = 0
           THEN /\ ~result[i].isError
                /\ result[i].text
                     = ReduceResponse(outcome[i].stdout, args[i].max_response_size).text
           ELSE /\ result[i].isError
                /\ result[i].error = "Command failed"
                /\ result[i].stderr = outcome[i].stderr
                /\ result[i].text = <<>>

C11_Witness ==
    \E i \in Invs :
        /\ IsRequest(i)
        /\ StdoutCaptured(i)
        /\ outcome[i].exit = 28
        /\ outcome[i].stdout # <<>>
        /\ outcome[i].stderr = CurlTimedOut
        /\ result[i].isError

(***************************************************************************)
(* C14.  The capture buffer (10 MiB) is larger than every                  *)
(* max_response_size request accepts, the captured output never exceeds    *)
(* it, and whenever the process's output is longer than max_response_size  *)
(* the outcome is a truncation in the handler with a non-error result,     *)
(* never a failure for an overflowing buffer.  "Longer" is read in the     *)
(* handler's own measure, String.length.                                   *)
(***************************************************************************)
C14_TruncationNeverOverflows ==
    \A i \in Invs :
        (IsRequest(i) /\ Done(i) /\ spawned[i] = 1 /\ proc[i].ok /\ outcome[i].exit = 0)
        => /\ args[i].max_response_size < MaxBuffer
           /\ ~result[i].isError => ByteLength(outcome[i].stdout) <= MaxBuffer
           /\ StrLength(outcome[i].stdout) > args[i].max_response_size
               => /\ ~result[i].isError
                  /\ locals[i].truncated

(***************************************************************************)
(* C13.  Every failure of request or download (invalid url, invalid        *)
(* method, timeout, process failure, a fault while reading the arguments   *)
(* or building the command) is returned as an error-flagged result with a  *)
(* message and at most the stderr text; every call ends with a result; a   *)
(* response that is no JSON is never error-flagged.                        *)
(***************************************************************************)
\* the capture buffer of the invocation's exec call
BufferOf(i) == IF IsRequest(i) THEN MaxBuffer ELSE DefaultMaxBuffer

\* the invocation met one of the failures, invalid method aside
Failed(i) ==
    \/ IsRequest(i) /\ RequestFault(args[i]) # ""
    \/ IsDownload(i) /\ DownloadFault(args[i]) # ""
    \/ /\ Done(i)
       /\ spawned[i] = 1
       /\ \/ outcome[i].exit # 0
          \/ ByteLength(outcome[i].stdout) > BufferOf(i)

InvalidMethod(i) == IsRequest(i) /\ args[i].given /\ args[i].method \notin SchemaMethods

ErrorResult(i) ==
    /\ result[i].isError
    /\ result[i].error # ""
    /\ result[i].text = <<>>
    /\ result[i].keys \subseteq {"error", "stderr"}

C13_EveryFailureIsAnErrorResult ==
    \A i \in Invs :
        /\ (Called(i) /\ spawned[i] = 0) => Done(i)
        /\ Done(i) =>
              /\ (Failed(i) \/ InvalidMethod(i)) => ErrorResult(i)
              /\ (IsRequest(i) /\ ProcessSucceeded(i) /\ ~locals[i].isJson)
                    => ~result[i].isError

(***************************************************************************)
(* C15.  Under any interleaving of concurrent request and download         *)
(* invocations, each invocation calls exec at most once, a step of one     *)
(* invocation changes nothing of another, and each result is the one the   *)
(* invocation gives alone with the same arguments and process outcome.     *)
(***************************************************************************)
\* everything the model keeps for invocation i
StateOf(i) ==
    <<pc[i], tool[i], args[i], command[i], spawned[i], proc[i], outcome[i], locals[i],
      result[i], elapsed[i]>>

\* what a call of tool t with arguments a returns when it runs alone and its
\* process ends as o
ResultAlone(t, a, o) ==
    IF t = "curl_request"
    THEN IF RequestFault(a) # ""
         THEN RequestError(RequestFault(a), FaultDetail(RequestFault(a), a), "")
         ELSE LET x == ExecSettles(ShParse(RequestCommand(a)), o, MaxBuffer) IN
              IF x.resolved
              THEN RequestSuccess(ReduceResponse(x.stdout, a.max_response_size).text)
              ELSE RequestError(x.message, RequestCommand(a), x.stderr)
    ELSE IF DownloadFault(a) # ""
         THEN DownloadError(DownloadFault(a), FaultDetail(DownloadFault(a), a))
         ELSE LET x == ExecSettles(ShParse(DownloadCommand(a)), o, DefaultMaxBuffer) IN
              IF x.resolved THEN DownloadSuccess
              ELSE DownloadError(x.message, DownloadCommand(a))

IsolatedResults ==
    \A i \in Invs :
        /\ spawned[i] <= 1
        /\ Done(i) => result[i] = ResultAlone(tool[i], args[i], outcome[i])

\* a step changes one invocation only, and never spawns for it a second time
OneInvocationSteps ==
    /\ \A i, j \in Invs :
          (i # j /\ StateOf(i)' # StateOf(i)) => StateOf(j)' = StateOf(j)
    /\ \A i \in Invs : spawned[i] = 1 => spawned'[i] = 1

C15_InvocationsAreIsolated == []IsolatedResults /\ [][OneInvocationSteps]_vars

C15_Witness ==
    /\ Done(1)
    /\ IsRequest(1)
    /\ args[1].max_response_size = 1
    /\ result[1].text = <<Txt(1, 1)>>
    /\ Done(2)
    /\ IsRequest(2)
    /\ args[2].max_response_size = 800000
    /\ result[2].text = <<Txt(2, 1)>>

(***************************************************************************)
(* C12.  For a request with a positive timeout, when the timeout passes    *)
(* with the process still running, the invocation eventually returns an    *)
(* error-flagged result that is identified as a timeout, not as the        *)
(* failure of the process; no invocation stays suspended forever.          *)
(***************************************************************************)
\* the messages the handlers give the other failures
OtherFailureMessages ==
    {"Command failed", "stdout maxBuffer length exceeded", "Invalid URL",
     "Cannot destructure property 'url' of 'args'",
     "Cannot convert undefined or null to object", "data.replace is not a function"}

\* the timeout of a request has passed and its process still runs
Overdue(i) == IsRequest(i) /\ pc[i] = "running" /\ elapsed[i]

TimeoutReported(i) ==
    /\ Done(i)
    /\ result[i].isError
    /\ result[i].error \notin OtherFailureMessages

C12_TimeoutIsReported == \A i \in Invs : Overdue(i) ~> TimeoutReported(i)

=============================================================================
